---- MODULE Spec2Model ----
(***************************************************************************)
(* Model of ArduinoUnoR4WiFiWeatherStation.ino: the message/value queues,  *)
(* their rebuild in downloadData(), and the display state machine of       *)
(* loop() with the renderer's completion callback.                          *)
(*                                                                         *)
(* Time: millis() is an unsigned long; the model keeps the real time `now` *)
(* and reads the clock as now % (ULONG_MAX + 1).  DISPLAY_DELAY and            *)
(* DOWNLOAD_INTERVAL keep the leading factor of their source expressions   *)
(* (2 * 1000 and 5 * 60 * 1000): one tick of the model clock stands for    *)
(* the unit the source multiplies by.                                      *)
(***************************************************************************)
EXTENDS Integers, Sequences, FiniteSets, TLC

\* ---------------------------------------------------------------- bounds
MaxHazards == 2      \* most hazards a forecast carries
ULONG_MAX == 7       \* largest value of the unsigned millisecond counter
ExtraTime == 2       \* how far past one counter wrap the real time runs
DownloadTicks == 1   \* most clock ticks one download takes

\* ------------------------------------------------------ program constants
DISPLAY_DELAY == 2
DOWNLOAD_INTERVAL == 5

ClockMod == ULONG_MAX + 1
MaxTime == ClockMod + ExtraTime

\* unsigned long arithmetic
UAdd(a, b) == (a + b) % ClockMod
USub(a, b) == (a - b + ClockMod) % ClockMod
Millis(t) == t % ClockMod

\* ------------------------------------------------------------- addresses
NULL == 0            \* nullptr
INDOOR == 1          \* &indoorValue, the one statically allocated ValueNode
MaxEntries == MaxHazards + 5
VHeap == 2 .. (MaxEntries + 1)      \* addresses new ValueNode() hands out
MHeap == 1 .. MaxEntries            \* addresses of AsyncScrollingMessage objects
VAddr == {INDOOR} \cup VHeap

\* a double: a number in tenths of a degree, or NaN
Double(x) == [nan |-> FALSE, tenths |-> x]
NaN == [nan |-> TRUE, tenths |-> 0]
isnan(d) == d.nan

\* the implicit double -> int conversion at addMessage(.., bool, int value):
\* truncation toward zero (the forecasts drawn below convert no NaN)
ToInt(d) ==
  IF d.tenths >= 0 THEN d.tenths \div 10 ELSE -((-d.tenths) \div 10)

\* NwsWeatherData::convertTemperature(c, CELSIUS, FAHRENHEIT) followed by the
\* assignment to the int indoorValue.value (SHOW_CELSIUS is false)
ConvertToOut(tenthsC) ==
  LET f == (tenthsC * 9) \div 5 + 320
  IN  IF f >= 0 THEN f \div 10 ELSE -((-f) \div 10)

\* ------------------------------------------------------------ input sets
SensorTenthsC == {215}                       \* thermo.getTemperature()
StationTemps == {Double(557)}
HighTemps == {NaN, Double(1004)}
LowTemps == {Double(-109)}
PeriodConts == {0, 1}    \* continuations generateMessages makes of the period text

Forecasts ==
  [hazardCount : 0 .. MaxHazards, station : StationTemps, high : HighTemps,
   low : LowTemps, periodConts : PeriodConts]

NoForecast ==
  [hazardCount |-> 0, station |-> NaN, high |-> NaN, low |-> NaN,
   periodConts |-> 0]

\* message texts
Text(kind, idx) == [kind |-> kind, idx |-> idx]
INDOOR_MESSAGE == Text("indoor", 0)
NOW_MESSAGE == Text("outdoor", 0)
HIGH_MESSAGE == Text("high", 0)
LOW_MESSAGE == Text("low", 0)
PeriodText == Text("period", 0)
HazardText(i) == Text("hazard", i)
NoText == Text("none", 0)

\* a ValueNode and an AsyncScrollingMessage
ValueNode(v, h, n) == [value |-> v, hasValue |-> h, next |-> n]
FreshValueNode == ValueNode(0, FALSE, NULL)       \* new ValueNode()
Message(t, c, n) == [text |-> t, conts |-> c, next |-> n]
NoMessage == Message(NoText, 0, NULL)

Min(S) == CHOOSE x \in S : \A y \in S : x <= y

\* -------------------------------------------------------------- state
VARIABLES
  pc,               \* "setup", "loop", "fault" (a while(true) marquee), "hang"
  now,              \* real time; millis() reads Millis(now)
  state,            \* State
  firstValue, lastValue, currentValue,
  endValueDisplay,
  valueNodes,       \* the ValueNode at each address (INDOOR is indoorValue)
  valueAlloc,       \* heap ValueNodes allocated and not deleted
  addThermoMessage,
  firstMessage, lastMessage, currentMessage,
  messages,         \* the AsyncScrollingMessage at each address
  messageAlloc,     \* messages generated and not deleted
  weatherData,      \* what the NwsWeatherData object holds
  callback,         \* the completion callback registered with the matrix
  scrollLeft,       \* segments the renderer still has to scroll (0: idle)
  display,          \* what the matrix was last told to draw
  events,           \* calls made by the last step, in order
  hist              \* observer: pass and dwell bookkeeping

vars ==
  <<pc, now, state, firstValue, lastValue, currentValue, endValueDisplay,
    valueNodes, valueAlloc, addThermoMessage, firstMessage, lastMessage,
    currentMessage, messages, messageAlloc, weatherData, callback, scrollLeft,
    display, events, hist>>

\* the program state as one record, for the operators that model functions
Cur ==
  [pc |-> pc, now |-> now, state |-> state, firstValue |-> firstValue,
   lastValue |-> lastValue, currentValue |-> currentValue,
   endValueDisplay |-> endValueDisplay, valueNodes |-> valueNodes,
   valueAlloc |-> valueAlloc, addThermoMessage |-> addThermoMessage,
   firstMessage |-> firstMessage, lastMessage |-> lastMessage,
   currentMessage |-> currentMessage, messages |-> messages,
   messageAlloc |-> messageAlloc, weatherData |-> weatherData,
   callback |-> callback, scrollLeft |-> scrollLeft, display |-> display,
   events |-> <<>>, hist |-> hist]

Install(s) ==
  /\ pc' = s.pc
  /\ now' = s.now
  /\ state' = s.state
  /\ firstValue' = s.firstValue
  /\ lastValue' = s.lastValue
  /\ currentValue' = s.currentValue
  /\ endValueDisplay' = s.endValueDisplay
  /\ valueNodes' = s.valueNodes
  /\ valueAlloc' = s.valueAlloc
  /\ addThermoMessage' = s.addThermoMessage
  /\ firstMessage' = s.firstMessage
  /\ lastMessage' = s.lastMessage
  /\ currentMessage' = s.currentMessage
  /\ messages' = s.messages
  /\ messageAlloc' = s.messageAlloc
  /\ weatherData' = s.weatherData
  /\ callback' = s.callback
  /\ scrollLeft' = s.scrollLeft
  /\ display' = s.display
  /\ events' = s.events
  /\ hist' = s.hist

Event(e, a) == [e |-> e, a |-> a]
Log(s, e, a) == [s EXCEPT !.events = Append(@, Event(e, a))]

Shown(mode, font, value, text) ==
  [mode |-> mode, font |-> font, value |-> value, text |-> text]

\* ------------------------------------------------- the two linked lists
\* the value nodes from address a on, following next (at most k hops)
RECURSIVE ValueChain(_, _, _)
ValueChain(nodes, a, k) ==
  IF a = NULL \/ k = 0 THEN <<>>
  ELSE <<a>> \o ValueChain(nodes, nodes[a].next, k - 1)

RECURSIVE MessageChain(_, _, _)
MessageChain(msgs, a, k) ==
  IF a = NULL \/ k = 0 THEN <<>>
  ELSE <<a>> \o MessageChain(msgs, msgs[a].next, k - 1)

ChainFuel == MaxEntries + 2

\* AsyncScrollingMessage::getNextAfterContinuations()
getNextAfterContinuations(s, m) == s.messages[m].next

\* AsyncScrollingMessage::generateMessages(): a new message (with conts
\* continuation segments); NewMessage(s) is the address it returns
NewMessage(s) == Min(MHeap \ s.messageAlloc)
generateMessage(s, text, conts) ==
  LET m == NewMessage(s)
  IN  [s EXCEPT !.messageAlloc = @ \cup {m},
                !.messages[m] = Message(text, conts, NULL)]

\* mutant: a node appended to a list that is not empty is linked after
\* lastValue, and lastValue is left where it was
addMessageNode_LastNotMoved(s, message, valueNode) ==
  LET s1 == IF s.firstValue = NULL
            THEN [s EXCEPT !.firstValue = valueNode, !.lastValue = valueNode]
            ELSE [s EXCEPT !.valueNodes[s.lastValue].next = valueNode]
  IN  IF s1.firstMessage = NULL
      THEN [s1 EXCEPT !.firstMessage = message, !.lastMessage = message]
      ELSE [s1 EXCEPT !.messages[s1.lastMessage].next = message,
                      !.lastMessage = message]

\* addMessage(AsyncScrollingMessage*, ValueNode*)
addMessageNode(s, message, valueNode) ==
  LET s1 == IF s.firstValue = NULL
            THEN [s EXCEPT !.firstValue = valueNode, !.lastValue = valueNode]
            ELSE [s EXCEPT !.valueNodes[s.lastValue].next = valueNode,
                           !.lastValue = valueNode]
  IN  IF s1.firstMessage = NULL
      THEN [s1 EXCEPT !.firstMessage = message, !.lastMessage = message]
      ELSE [s1 EXCEPT !.messages[s1.lastMessage].next = message,
                      !.lastMessage = message]

\* addMessage(AsyncScrollingMessage*, bool, int)
NewValueNode(s) == Min(VHeap \ s.valueAlloc)
addMessageValue(s, message, hasValue, value) ==
  LET n == NewValueNode(s)
      s1 == [s EXCEPT !.valueAlloc = @ \cup {n},
                      !.valueNodes[n] = ValueNode(value, hasValue, NULL)]
  IN  addMessageNode(s1, message, n)

\* addMessage(generateMessage(text), hasValue, value)
AddText(s, text, conts, hasValue, value) ==
  addMessageValue(generateMessage(s, text, conts), NewMessage(s), hasValue, value)

\* the hazard loop of downloadData
RECURSIVE AddHazards(_, _, _)
AddHazards(s, index, hazardCount) ==
  IF index < hazardCount
  THEN AddHazards(AddText(s, HazardText(index), 0, FALSE, 0), index + 1, hazardCount)
  ELSE s

\* the loop that frees the value nodes (the source loops until firstValue is
\* null; k bounds the unrolling, and running out of it is logged)
RECURSIVE FreeValues(_, _)
FreeValues(s, k) ==
  IF s.firstValue = NULL THEN s
  ELSE IF k = 0 THEN Log(s, "freeValuesNoEnd", s.firstValue)
  ELSE LET f == s.firstValue
           n == s.valueNodes[f].next
           s1 == IF f # INDOOR
                 THEN Log([s EXCEPT !.valueAlloc = @ \ {f},
                                    !.valueNodes[f] = FreshValueNode],
                          IF f \in s.valueAlloc THEN "deleteValue"
                          ELSE "badDeleteValue", f)
                 ELSE s
       IN  FreeValues([s1 EXCEPT !.firstValue = n], k - 1)

\* AsyncScrollingMessage::deleteMessageAndContinuationsAndFollowingMessages()
RECURSIVE DeleteMessages(_, _, _)
DeleteMessages(s, m, k) ==
  IF m = NULL \/ k = 0 THEN s
  ELSE DeleteMessages(
         Log([s EXCEPT !.messageAlloc = @ \ {m}, !.messages[m] = NoMessage],
             IF m \in s.messageAlloc THEN "deleteMessage"
             ELSE "badDeleteMessage", m),
         s.messages[m].next, k - 1)

\* ------------------------------------------------------------- drawing
MATRIX_CALLBACK == "matrixCallback"
NO_CALLBACK == "nullptr"

\* mutant: the bounds of the large font are taken inclusive
FontFor_Inclusive(value) ==
  IF value <= 100 /\ value >= -10 THEN "Font_5x7" ELSE "Font_4x6"

\* the font choice of displayValue
FontFor(value) == IF value < 100 /\ value > -10 THEN "Font_5x7" ELSE "Font_4x6"

\* mutant: the value is drawn with the callback left registered
displayValue_KeepCallback(s, value) ==
  Log([s EXCEPT !.scrollLeft = 0,
                !.display = Shown("value", FontFor(value), value, NoText)],
      "displayValue", value)

\* displayValue(int)
displayValue(s, value) ==
  Log([s EXCEPT !.callback = NO_CALLBACK, !.scrollLeft = 0,
                !.display = Shown("value", FontFor(value), value, NoText)],
      "displayValue", value)

\* displayMarquee(const String&)
displayMarquee(s, text) ==
  Log([s EXCEPT !.callback = NO_CALLBACK, !.scrollLeft = 0,
                !.display = Shown("marquee", "Font_4x6", 0, text)],
      "displayMarquee", 0)

\* AsyncScrollingMessage::showMessageAndContinuations(callback)
showMessageAndContinuations(s, m, cb) ==
  Log([s EXCEPT !.callback = cb, !.scrollLeft = 1 + s.messages[m].conts,
                !.display = Shown("scroll", "Font_4x6", 0, s.messages[m].text)],
      "showMessage", m)

\* mutant: the completion signal jumps over START_VALUE
matrixCallback_ToWaitValue(s) ==
  Log([s EXCEPT !.state = "WAIT_VALUE"], "matrixCallback", 0)

\* matrixCallback()
matrixCallback(s) == Log([s EXCEPT !.state = "START_VALUE"], "matrixCallback", 0)

\* the renderer finishes the last segment of a scroll and signals completion
CompleteScroll(s) ==
  LET s1 == [s EXCEPT !.scrollLeft = 0]
  IN  IF s1.callback = MATRIX_CALLBACK THEN matrixCallback(s1) ELSE s1

\* ------------------------------------------------------- checkIndoorTemp
\* mutant: an absent sensor also withdraws the value of the indoor node
checkIndoorTemp_DropsEntry(s, present, raw) ==
  LET s1 == IF present
            THEN [s EXCEPT !.addThermoMessage = TRUE,
                           !.valueNodes[INDOOR].value = ConvertToOut(raw)]
            ELSE [s EXCEPT !.addThermoMessage = FALSE,
                           !.valueNodes[INDOOR].hasValue = FALSE]
  IN  Log([s1 EXCEPT !.hist.passSamples = IF @ < 2 THEN @ + 1 ELSE @],
          "checkIndoorTemp", IF present THEN 1 ELSE 0)

checkIndoorTemp(s, present, raw) ==
  LET s1 == IF present
            THEN [s EXCEPT !.addThermoMessage = TRUE,
                           !.valueNodes[INDOOR].value = ConvertToOut(raw)]
            ELSE [s EXCEPT !.addThermoMessage = FALSE]
  IN  Log([s1 EXCEPT !.hist.passSamples = IF @ < 2 THEN @ + 1 ELSE @],
          "checkIndoorTemp", IF present THEN 1 ELSE 0)

\* ---------------------------------------------------------- downloadData
\* weatherData->downloadNewData(): takes d ticks; ok says whether the data
\* source holds valid data afterwards, fc is the forecast it then holds
downloadNewData(s, ok, fc, d) ==
  LET t == IF s.now + d <= MaxTime THEN s.now + d ELSE MaxTime
  IN  Log([s EXCEPT !.now = t,
                    !.weatherData =
                       IF ok THEN [valid |-> TRUE, lastDownloadTime |-> Millis(t),
                                   fc |-> fc]
                       ELSE [valid |-> FALSE,
                             lastDownloadTime |-> s.weatherData.lastDownloadTime,
                             fc |-> NoForecast]],
          "downloadNewData", 0)

\* the while (true) displayMarquee(...) loops: the first pass of the loop
Halt(s, text) == displayMarquee([s EXCEPT !.pc = "fault"], text)

DownloadErrorText == Text("ERROR Could not download weather data. Press reset", 0)

\* mutant: the loop deletes the indoor node like any other node of the list
ReleaseValues_IndoorToo(s) ==
  LET q == ValueChain(s.valueNodes, s.firstValue, ChainFuel)
      r == FreeValues(s, ChainFuel)
  IN  [(IF \E i \in 1 .. Len(q) : q[i] = INDOOR
        THEN Log([r EXCEPT !.valueNodes[INDOOR] = FreshValueNode],
                 "badDeleteValue", INDOOR)
        ELSE r)
       EXCEPT !.lastValue = NULL, !.currentValue = NULL]

\* lines 292-305: free the value nodes
ReleaseValues(s) ==
  [FreeValues(s, ChainFuel) EXCEPT !.lastValue = NULL, !.currentValue = NULL]

\* lines 307-315: free the messages
ReleaseMessages(s) ==
  [(IF s.firstMessage # NULL
    THEN DeleteMessages(s, s.firstMessage, ChainFuel)
    ELSE s)
   EXCEPT !.firstMessage = NULL, !.lastMessage = NULL, !.currentMessage = NULL]

ReleaseQueues(s) == ReleaseMessages(ReleaseValues(s))

\* lines 320-353: the entries of the new queues, in order
AddAllHazards(s) == AddHazards(s, 0, s.weatherData.fc.hazardCount)
AddPeriod(s) == AddText(s, PeriodText, s.weatherData.fc.periodConts, FALSE, 0)
AddIndoor(s) ==
  IF s.addThermoMessage
  THEN addMessageNode(generateMessage(s, INDOOR_MESSAGE, 0), NewMessage(s), INDOOR)
  ELSE s
AddNow(s) == AddText(s, NOW_MESSAGE, 0, TRUE, ToInt(s.weatherData.fc.station))
\* mutant: the high is added without the isnan test
AddHigh_NoNanTest(s) ==
  AddText(s, HIGH_MESSAGE, 0, TRUE, ToInt(s.weatherData.fc.high))

AddHigh(s) ==
  IF ~isnan(s.weatherData.fc.high)
  THEN AddText(s, HIGH_MESSAGE, 0, TRUE, ToInt(s.weatherData.fc.high))
  ELSE s
AddLow(s) == AddText(s, LOW_MESSAGE, 0, TRUE, ToInt(s.weatherData.fc.low))

BuildQueues(s) == AddLow(AddHigh(AddNow(AddIndoor(AddPeriod(AddAllHazards(s))))))

\* lines 355-358: the state and the cursor after a rebuild
ResetCursor(s) ==
  Log([s EXCEPT !.state = "START_SCROLL", !.currentValue = s.firstValue,
                !.currentMessage = s.firstMessage],
      "rebuilt", 0)

\* mutant: a failed download is skipped and downloadData returns
AfterDownload_SkipOnFailure(s) ==
  IF ~s.weatherData.valid
  THEN s
  ELSE ResetCursor(BuildQueues(ReleaseQueues(s)))

\* mutant: the old queues are released before the download is validated
AfterDownload_ReleaseFirst(s) ==
  IF ~s.weatherData.valid
  THEN Halt(ReleaseQueues(s), DownloadErrorText)
  ELSE ResetCursor(BuildQueues(ReleaseQueues(s)))

\* lines 284-358: downloadData after downloadNewData() returned
AfterDownload(s) ==
  IF ~s.weatherData.valid
  THEN Halt(s, DownloadErrorText)
  ELSE ResetCursor(BuildQueues(ReleaseQueues(s)))

downloadData(s, ok, fc, d) ==
  AfterDownload(downloadNewData(Log(s, "downloadData", 0), ok, fc, d))

\* ------------------------------------------------------------------ loop
Bump(n) == IF n < 2 THEN n + 1 ELSE n     \* observer counters saturate at 2

\* mutant: the data counts as stale from the interval on
IsStale_AtInterval(currentTime, lastDownloadTime) ==
  USub(currentTime, lastDownloadTime) >= DOWNLOAD_INTERVAL

\* currentTime - weatherData->getLastDownloadTime() > DOWNLOAD_INTERVAL
IsStale(currentTime, lastDownloadTime) ==
  USub(currentTime, lastDownloadTime) > DOWNLOAD_INTERVAL

\* mutant: every START_SCROLL run counts as a pass start
AtPassStart_Always(s) == TRUE

\* currentMessage == firstMessage || currentMessage == nullptr
AtPassStart(s) == s.currentMessage = s.firstMessage \/ s.currentMessage = NULL

NoDataText == Text("No data to display.", 0)

\* what one loop() / setup() run reads from outside the program
NoInput ==
  [present |-> FALSE, raw |-> 0, ok |-> TRUE, fc |-> NoForecast, d |-> 0,
   early |-> FALSE]

SensorInputs ==
  {[NoInput EXCEPT !.present = FALSE]}
    \cup {[NoInput EXCEPT !.present = TRUE, !.raw = r] : r \in SensorTenthsC}

DownloadInputs(base) ==
  {[base EXCEPT !.ok = FALSE, !.d = d] : d \in 0 .. DownloadTicks}
    \cup {[base EXCEPT !.fc = x[1], !.d = x[2]] :
            x \in Forecasts \X (0 .. DownloadTicks)}

\* a pass ends when the cursor runs off the end
EndOfPass(s) ==
  IF s.currentMessage = NULL
  THEN [s EXCEPT !.hist.passSamples = 0, !.hist.passChecks = 0,
                 !.hist.passShown = 0]
  ELSE s

\* mutant: the message cursor moves on and the value cursor stays
Advance_MessageOnly(s) ==
  EndOfPass(Log([s EXCEPT !.state = "START_SCROLL", !.hist.shownAt = 0,
                          !.currentMessage =
                             getNextAfterContinuations(s, s.currentMessage)],
                "advance", 0))

\* the cursor moves to the next item (lines 236-238 and 253-255)
Advance(s) ==
  EndOfPass(Log([s EXCEPT !.state = "START_SCROLL", !.hist.shownAt = 0,
                          !.currentMessage =
                             getNextAfterContinuations(s, s.currentMessage),
                          !.currentValue = s.valueNodes[s.currentValue].next],
                "advance", 0))

\* lines 206-211: the refresh decision
RefreshCheck(s, currentTime, in) ==
  IF IsStale(currentTime, s.weatherData.lastDownloadTime)
  THEN downloadData(Log([s EXCEPT !.hist.passChecks = Bump(@)], "refreshCheck", 0),
                    in.ok, in.fc, in.d)
  ELSE Log(Log([s EXCEPT !.hist.passChecks = Bump(@)], "refreshCheck", 0),
           "usingCachedData", 0)

\* lines 203-212
PassStart(s, currentTime, in) ==
  IF AtPassStart(s)
  THEN RefreshCheck(checkIndoorTemp(s, in.present, in.raw), currentTime, in)
  ELSE s

\* mutant: the restart forgets the value cursor
RestartAtHead_MessageOnly(s) ==
  IF s.currentMessage = NULL
  THEN [s EXCEPT !.currentMessage = s.firstMessage]
  ELSE s

\* lines 221-222
RestartAtHead(s) ==
  IF s.currentMessage = NULL
  THEN [s EXCEPT !.currentMessage = s.firstMessage, !.currentValue = s.firstValue]
  ELSE s

\* mutant: the scroll is started first and state is set to WAIT_SCROLL after
ScrollCurrent_StateAfterStart(s, early) ==
  IF early
  THEN [CompleteScroll(showMessageAndContinuations(
          [s EXCEPT !.hist.passShown = Bump(@)],
          s.currentMessage, MATRIX_CALLBACK))
        EXCEPT !.state = "WAIT_SCROLL"]
  ELSE showMessageAndContinuations(
         [s EXCEPT !.state = "WAIT_SCROLL", !.hist.passShown = Bump(@)],
         s.currentMessage, MATRIX_CALLBACK)

\* lines 226-227; early: the scroll completes before loop() returns
ScrollCurrent(s, early) ==
  IF early
  THEN CompleteScroll(showMessageAndContinuations(
         [s EXCEPT !.state = "WAIT_SCROLL", !.hist.passShown = Bump(@)],
         s.currentMessage, MATRIX_CALLBACK))
  ELSE showMessageAndContinuations(
         [s EXCEPT !.state = "WAIT_SCROLL", !.hist.passShown = Bump(@)],
         s.currentMessage, MATRIX_CALLBACK)

\* lines 215-227
StartScroll(s, early) ==
  IF s.pc = "fault" THEN s
  ELSE IF s.currentMessage = NULL /\ s.firstMessage = NULL
  THEN displayMarquee(s, NoDataText)
  ELSE ScrollCurrent(RestartAtHead(s), early)

\* the START_SCROLL branch of loop()
loopStartScroll(s, currentTime, in) ==
  StartScroll(PassStart(s, currentTime, in), in.early)

\* mutant: the value is shown whether or not the node has one
loopStartValue_AlwaysShow(s, currentTime) ==
  displayValue([s EXCEPT !.state = "WAIT_VALUE",
                         !.endValueDisplay = UAdd(currentTime, DISPLAY_DELAY),
                         !.hist.shownAt = s.now],
               s.valueNodes[s.currentValue].value)

\* the START_VALUE branch of loop()
loopStartValue(s, currentTime) ==
  IF ~s.valueNodes[s.currentValue].hasValue
  THEN Advance(s)
  ELSE displayValue([s EXCEPT !.state = "WAIT_VALUE",
                              !.endValueDisplay = UAdd(currentTime, DISPLAY_DELAY),
                              !.hist.shownAt = s.now],
                    s.valueNodes[s.currentValue].value)

\* mutant: when the dwell expires the cursor moves on and the state stays
loopWaitValue_KeepsState(s, currentTime) ==
  IF currentTime > s.endValueDisplay
  THEN [Advance(s) EXCEPT !.state = "WAIT_VALUE"]
  ELSE s

\* the WAIT_VALUE branch of loop()
loopWaitValue(s, currentTime) ==
  IF currentTime > s.endValueDisplay THEN Advance(s) ELSE s

\* the inputs a START_SCROLL run can read in state s
StartScrollInputs(s, currentTime) ==
  LET a == IF AtPassStart(s) THEN SensorInputs ELSE {NoInput}
      b == IF AtPassStart(s) /\ IsStale(currentTime, s.weatherData.lastDownloadTime)
           THEN UNION {DownloadInputs(x) : x \in a}
           ELSE a
  IN  UNION {{x, [x EXCEPT !.early = TRUE]} : x \in b}

LoopStartScroll ==
  /\ pc = "loop" /\ state = "START_SCROLL"
  /\ \E in \in StartScrollInputs(Cur, Millis(now)) :
       Install(loopStartScroll(Cur, Millis(now), in))

LoopWaitScroll ==
  /\ pc = "loop" /\ state = "WAIT_SCROLL"
  /\ Install(Cur)

LoopStartValue ==
  /\ pc = "loop" /\ state = "START_VALUE"
  /\ Install(loopStartValue(Cur, Millis(now)))

LoopWaitValue ==
  /\ pc = "loop" /\ state = "WAIT_VALUE"
  /\ Install(loopWaitValue(Cur, Millis(now)))

\* ----------------------------------------------------------- the renderer
\* a continuation segment follows the one that finished scrolling
ContinuationDone ==
  /\ scrollLeft > 1
  /\ Install([Cur EXCEPT !.scrollLeft = @ - 1])

\* the last segment finished: the matrix calls the registered callback
ScrollDone ==
  /\ scrollLeft = 1
  /\ Install(CompleteScroll(Cur))

\* the millisecond clock
Tick ==
  /\ pc # "setup"
  /\ now < MaxTime
  /\ Install([Cur EXCEPT !.now = @ + 1])

\* ----------------------------------------------------------------- setup
WifiModuleText == Text("Communication with WiFi module failed!", 0)
WifiFailedText == Text("WiFi connection failed. Check SSID/password", 0)
UpgradeText == Text("Please upgrade the WiFi firmware", 0)

\* connectToWifi(): wifi is "no_module", "connect_failed" or "connected"
ConnectOrHalt(s, wifi) ==
  IF wifi = "connect_failed" THEN Halt(s, WifiFailedText) ELSE s

connectToWifi(s, wifi, oldFirmware) ==
  IF wifi = "no_module" THEN Halt(s, WifiModuleText)
  ELSE IF oldFirmware THEN ConnectOrHalt(displayMarquee(s, UpgradeText), wifi)
  ELSE ConnectOrHalt(s, wifi)

\* mutant: the error loop of a failed download ends and setup() returns
EnterLoop_AfterFault(s) ==
  [s EXCEPT !.pc = "loop", !.hist.passSamples = 0, !.hist.passChecks = 0,
            !.hist.passShown = 0]

\* setup() returns and loop() starts being called
EnterLoop(s) ==
  IF s.pc = "fault" THEN s
  ELSE [s EXCEPT !.pc = "loop", !.hist.passSamples = 0, !.hist.passChecks = 0,
                 !.hist.passShown = 0]

\* lines 182-186
SetupDownload(s, in) ==
  IF s.pc = "fault" THEN s ELSE EnterLoop(downloadData(s, in.ok, in.fc, in.d))

setup(s, okay, wifi, oldFirmware, in) ==
  IF ~okay THEN [s EXCEPT !.callback = MATRIX_CALLBACK, !.pc = "hang"]
  ELSE SetupDownload(
         connectToWifi(
           checkIndoorTemp([s EXCEPT !.callback = MATRIX_CALLBACK],
                           in.present, in.raw),
           wifi, oldFirmware),
         in)

Setup ==
  /\ pc = "setup"
  /\ \E okay \in BOOLEAN, oldFirmware \in BOOLEAN,
        wifi \in {"no_module", "connect_failed", "connected"} :
       \E in \in UNION {DownloadInputs(x) : x \in SensorInputs} :
         Install(setup(Cur, okay, wifi, oldFirmware, in))

\* a halted program keeps drawing its message: while (true) displayMarquee(..)
FaultLoop ==
  /\ pc = "fault"
  /\ Install(displayMarquee(Cur, display.text))

\* --------------------------------------------------------- specification
Init ==
  /\ pc = "setup"
  /\ now = 0
  /\ state = "START_SCROLL"
  /\ firstValue = NULL /\ lastValue = NULL /\ currentValue = NULL
  /\ endValueDisplay = 0
  /\ valueNodes = [a \in VAddr |-> IF a = INDOOR THEN ValueNode(0, TRUE, NULL)
                                   ELSE FreshValueNode]
  /\ valueAlloc = {}
  /\ addThermoMessage = FALSE
  /\ firstMessage = NULL /\ lastMessage = NULL /\ currentMessage = NULL
  /\ messages = [a \in MHeap |-> NoMessage]
  /\ messageAlloc = {}
  /\ weatherData = [valid |-> FALSE, lastDownloadTime |-> 0, fc |-> NoForecast]
  /\ callback = NO_CALLBACK
  /\ scrollLeft = 0
  /\ display = Shown("none", "Font_4x6", 0, NoText)
  /\ events = <<>>
  /\ hist = [shownAt |-> 0, passSamples |-> 0, passChecks |-> 0, passShown |-> 0]

Next ==
  \/ Setup
  \/ LoopStartScroll
  \/ LoopWaitScroll
  \/ LoopStartValue
  \/ LoopWaitValue
  \/ ContinuationDone
  \/ ScrollDone
  \/ FaultLoop
  \/ Tick

Spec == Init /\ [][Next]_vars

\* ------------------------------------ the program that keeps running
\* every download succeeds at once, with a forecast that has no hazards, a
\* period text of two segments and a high; the display and the WiFi module
\* answer
LiveForecasts ==
  {fc \in Forecasts : fc.hazardCount = 0 /\ fc.periodConts = 1 /\ ~isnan(fc.high)}
LiveInputs(S) ==
  {in \in S : in.ok /\ in.d = 0 /\ in.fc \in LiveForecasts \cup {NoForecast}}

LiveSetup ==
  /\ pc = "setup"
  /\ \E in \in LiveInputs(UNION {DownloadInputs(x) : x \in SensorInputs}) :
       Install(setup(Cur, TRUE, "connected", FALSE, in))

LiveStartScroll ==
  /\ pc = "loop" /\ state = "START_SCROLL"
  /\ \E in \in LiveInputs(StartScrollInputs(Cur, Millis(now))) :
       Install(loopStartScroll(Cur, Millis(now), in))

\* the millisecond clock never stops: millis() rolls over after ULONG_MAX
LiveTick ==
  /\ pc # "setup"
  /\ Install([Cur EXCEPT !.now = (@ + 1) % ClockMod])

LiveNext ==
  \/ LiveSetup
  \/ LiveStartScroll
  \/ LoopWaitScroll
  \/ LoopStartValue
  \/ LoopWaitValue
  \/ ContinuationDone
  \/ ScrollDone
  \/ LiveTick

\* setup() runs to its end, and a loop() run in START_SCROLL starts a scroll
\* (the steps of LiveSetup and LiveStartScroll, told by what they do to pc
\* and state)
SetupRuns == pc = "setup" /\ pc' = "loop"
StartScrollRuns ==
  /\ pc = "loop" /\ state = "START_SCROLL"
  /\ state' \in {"WAIT_SCROLL", "START_VALUE"}

\* loop() is called again and again, far more often than the clock rolls
\* over (strong fairness for the branches that wait on the clock); the
\* renderer finishes every segment it started; the clock advances
LiveSpec ==
  /\ Init /\ [][LiveNext]_vars
  /\ WF_pc(SetupRuns)
  /\ SF_state(StartScrollRuns)
  /\ WF_vars(LoopStartValue)
  /\ SF_vars(LoopWaitValue)
  /\ WF_vars(ContinuationDone)
  /\ WF_vars(ScrollDone)
  /\ WF_vars(LiveTick)

\* ------------------------------------------- displayValue on its own
\* displayValue(int) called with any value of a range around the two bounds
\* of the font rule
MaxValue == 125
ShownValues == (0 - MaxValue) .. MaxValue

ShowValue == \E value \in ShownValues : Install(displayValue(Cur, value))

FontSpec == Init /\ [][ShowValue]_vars

\* ------------------------------------------------- reading the state
Has(log, e) == \E i \in 1 .. Len(log) : log[i].e = e
Count(log, e) == Cardinality({i \in 1 .. Len(log) : log[i].e = e})
FirstIndex(log, e) == Min({i \in 1 .. Len(log) : log[i].e = e})

\* the two queues as the sequences of their nodes' addresses
MessageQueue == MessageChain(messages, firstMessage, ChainFuel)
ValueQueue == ValueChain(valueNodes, firstValue, ChainFuel)

\* the display items: entry i pairs message i with value node i
Entry(m, v) ==
  [text |-> messages[m].text, hasValue |-> valueNodes[v].hasValue,
   value |-> IF valueNodes[v].hasValue THEN valueNodes[v].value ELSE 0]
Entries ==
  [i \in 1 .. Len(MessageQueue) |-> Entry(MessageQueue[i], ValueQueue[i])]

\* the position of the cursor in each queue (0: null or not in the queue)
Position(q, a) ==
  IF \E i \in 1 .. Len(q) : q[i] = a
  THEN CHOOSE i \in 1 .. Len(q) : q[i] = a
  ELSE 0

\* ================================================================ claims

\* C1: in every reachable state the message queue and the value queue have
\* the same length and the cursor pair is in lockstep: currentMessage is the
\* i-th message exactly when currentValue is the i-th value node, and
\* currentMessage is null exactly when currentValue is null.
C1_QueuesInLockstep ==
  /\ Len(MessageQueue) = Len(ValueQueue)
  /\ Len(MessageQueue) <= MaxEntries
  /\ (currentMessage = NULL) <=> (currentValue = NULL)
  /\ currentMessage # NULL => Position(MessageQueue, currentMessage) # 0
  /\ \A i \in 1 .. Len(MessageQueue) :
       (currentMessage = MessageQueue[i]) <=> (currentValue = ValueQueue[i])

\* a rebuild made by loop() (setup's download ends by time DownloadTicks), a
\* full queue, and the cursor advanced to its last entry
C1_Witness ==
  /\ pc = "loop" /\ state = "WAIT_VALUE"
  /\ weatherData.lastDownloadTime > DownloadTicks
  /\ Len(MessageQueue) = MaxEntries
  /\ currentMessage = lastMessage /\ currentValue = lastValue

\* the entries a rebuild is to produce
Item(text, hasValue, value) ==
  [text |-> text, hasValue |-> hasValue, value |-> value]
ExpectedEntries(fc, indoorAvailable, indoorReading) ==
  [i \in 1 .. fc.hazardCount |-> Item(HazardText(i - 1), FALSE, 0)]
    \o <<Item(PeriodText, FALSE, 0)>>
    \o (IF indoorAvailable THEN <<Item(INDOOR_MESSAGE, TRUE, indoorReading)>>
        ELSE <<>>)
    \o <<Item(NOW_MESSAGE, TRUE, ToInt(fc.station))>>
    \o (IF fc.high.nan THEN <<>> ELSE <<Item(HIGH_MESSAGE, TRUE, ToInt(fc.high))>>)
    \o <<Item(LOW_MESSAGE, TRUE, ToInt(fc.low))>>

LastSampleAvailable == events[FirstIndex(events, "checkIndoorTemp")].a = 1

\* C2: a successful rebuild produces exactly: one text-only entry per hazard
\* in hazard order, the text-only period summary, the indoor entry iff the
\* most recent sample marked the reading available, the outdoor temperature,
\* today's high iff it is not NaN, and tonight's low.
C2_RebuildOrder ==
  Has(events, "rebuilt") =>
    /\ Len(MessageQueue) = Len(ValueQueue)
    /\ Entries = ExpectedEntries(weatherData.fc, LastSampleAvailable,
                                 valueNodes[INDOOR].value)

\* the spec's example: one hazard, high undefined, indoor unavailable
C2_Witness ==
  /\ Has(events, "rebuilt")
  /\ weatherData.fc.hazardCount = 1 /\ weatherData.fc.high.nan
  /\ ~LastSampleAvailable
  /\ Len(MessageQueue) = 4
  /\ messages[MessageQueue[3]].text = NOW_MESSAGE
  /\ messages[MessageQueue[4]].text = LOW_MESSAGE

\* a loop() run in START_SCROLL (the clock's step logs no call)
StartScrollRan == pc = "loop" /\ state = "START_SCROLL" /\ events' # <<>>
CursorAtHead == currentMessage = firstMessage \/ currentMessage = NULL

\* both queues keep their nodes, order and contents (the indoor node's value,
\* resampled in place, apart)
QueuesUnchanged ==
  /\ firstMessage' = firstMessage /\ lastMessage' = lastMessage
  /\ messages' = messages /\ messageAlloc' = messageAlloc
  /\ firstValue' = firstValue /\ lastValue' = lastValue
  /\ valueAlloc' = valueAlloc
  /\ \A a \in VAddr :
       /\ valueNodes'[a].next = valueNodes[a].next
       /\ valueNodes'[a].hasValue = valueNodes[a].hasValue
       /\ a # INDOOR => valueNodes'[a].value = valueNodes[a].value

\* the condition under which the run downloads
C3_Downloads ==
  /\ CursorAtHead
  /\ (Millis(now) - weatherData.lastDownloadTime + ClockMod) % ClockMod
       > DOWNLOAD_INTERVAL
\* C3: a loop() run in START_SCROLL downloads iff the cursor is at the head
\* (or null) and now - lastDownloadTime > DOWNLOAD_INTERVAL in unsigned
\* arithmetic; when it does not download, nothing is rebuilt and both queues
\* are left as they were.
C3_RefreshGating ==
  [][StartScrollRan =>
       /\ Has(events', "downloadData") <=> C3_Downloads
       /\ ~C3_Downloads =>
            /\ QueuesUnchanged
            /\ weatherData' = weatherData
            /\ ~Has(events', "rebuilt") /\ ~Has(events', "downloadNewData")]_vars

\* a pass start that found the data exactly DOWNLOAD_INTERVAL old and reused
\* the queues
C3_Witness ==
  /\ pc = "loop"
  /\ Has(events, "usingCachedData")
  /\ USub(Millis(now), weatherData.lastDownloadTime) = DOWNLOAD_INTERVAL
  /\ Len(MessageQueue) >= 3

\* call e, when made in a run that scrolls, is made before the scroll starts
C4_Before(log, e) ==
  (Has(log, e) /\ Has(log, "showMessage")) =>
    FirstIndex(log, e) < FirstIndex(log, "showMessage")
\* C4: indoor sampling, the refresh decision and a rebuild happen only in a
\* run that starts in START_SCROLL with the cursor at the head (or null) and
\* before any item of the pass was scrolled, once each in that run and before
\* its scroll starts; while items of a pass are being shown the pass has seen
\* exactly one sampling and one refresh decision.
C4_OncePerPass ==
  [][/\ (\/ Has(events', "checkIndoorTemp") \/ Has(events', "refreshCheck")
         \/ Has(events', "downloadData") \/ Has(events', "rebuilt")) =>
          /\ state = "START_SCROLL"
          /\ CursorAtHead
          /\ hist.passShown = 0
          /\ Count(events', "checkIndoorTemp") = 1
          /\ Count(events', "refreshCheck") = (IF pc = "loop" THEN 1 ELSE 0)
          /\ Count(events', "rebuilt") <= 1
          /\ C4_Before(events', "checkIndoorTemp")
          /\ C4_Before(events', "refreshCheck")
          /\ C4_Before(events', "rebuilt")
     /\ (pc' = "loop" /\ hist'.passShown >= 1) =>
          hist'.passSamples = 1 /\ hist'.passChecks = 1]_vars

\* the second item of a pass is scrolling, in a pass that follows a rebuild
\* made by loop()
C4_Witness ==
  /\ pc = "loop" /\ state = "WAIT_SCROLL"
  /\ weatherData.lastDownloadTime > DownloadTicks
  /\ hist.passShown = 2 /\ hist.passSamples = 1 /\ hist.passChecks = 1
  /\ Position(MessageQueue, currentMessage) = 2

\* C5: when the cursor advances from the last item it becomes null; the next
\* START_SCROLL run samples the indoor reading once, makes the refresh
\* decision once and (unless the download fails and the program halts)
\* starts scrolling the first message of the queue it then has, with the
\* value cursor at the first value node.
C5_Wraparound ==
  [][/\ (/\ pc = "loop" /\ state \in {"START_VALUE", "WAIT_VALUE"}
         /\ currentMessage = lastMessage /\ Has(events', "advance")) =>
          /\ currentMessage' = NULL /\ currentValue' = NULL
          /\ state' = "START_SCROLL"
     /\ (StartScrollRan /\ currentMessage = NULL) =>
          /\ Count(events', "checkIndoorTemp") = 1
          /\ Count(events', "refreshCheck") = 1
          /\ pc' = "loop" =>
               /\ firstMessage' # NULL
               /\ currentMessage' = firstMessage'
               /\ currentValue' = firstValue'
               /\ Count(events', "showMessage") = 1
               /\ events'[FirstIndex(events', "showMessage")].a = firstMessage'
               /\ display' = Shown("scroll", "Font_4x6", 0,
                                   messages'[firstMessage'].text)
               /\ state' \in {"WAIT_SCROLL", "START_VALUE"}
               /\ FirstIndex(events', "refreshCheck")
                    < FirstIndex(events', "showMessage")]_vars

\* a pass start that reused the queues after an earlier pass showed a value
\* (endValueDisplay is 0 until a value is shown): item 0 is scrolling again
C5_Witness ==
  /\ pc = "loop" /\ state = "WAIT_SCROLL"
  /\ Has(events, "usingCachedData")
  /\ endValueDisplay > 0
  /\ currentMessage = firstMessage /\ currentValue = firstValue
  /\ scrollLeft > 0

\* C6: a START_VALUE run on a value node without a value advances both
\* cursors and sets START_SCROLL; it does not enter WAIT_VALUE, sets no
\* dwell deadline and does not call displayValue.
C6_CycleSkip ==
  [][(/\ pc = "loop" /\ state = "START_VALUE" /\ events' # <<>>
      /\ ~valueNodes[currentValue].hasValue) =>
       /\ state' = "START_SCROLL"
       /\ currentMessage' = messages[currentMessage].next
       /\ currentValue' = valueNodes[currentValue].next
       /\ endValueDisplay' = endValueDisplay
       /\ ~Has(events', "displayValue")
       /\ display' = display /\ callback' = callback]_vars

\* the skip was taken after the period summary: the display still shows its
\* text and loop() is about to scroll the next entry
C6_Witness ==
  /\ pc = "loop" /\ state = "START_SCROLL"
  /\ events = <<Event("advance", 0)>>
  /\ display.mode = "scroll" /\ display.text = PeriodText
  /\ currentMessage # NULL /\ messages[currentMessage].text = NOW_MESSAGE

\* C7: after entering WAIT_VALUE at real time T, a poll leaves WAIT_VALUE
\* exactly when the real time is past T + DISPLAY_DELAY, for every T of the
\* clock, also where T + DISPLAY_DELAY wraps around the counter.
C7_DwellTiming ==
  (pc = "loop" /\ state = "WAIT_VALUE") =>
    ((loopWaitValue(Cur, Millis(now)).state = "START_SCROLL")
       <=> (now > hist.shownAt + DISPLAY_DELAY))

\* a step in which downloadNewData() left the data source without valid data
DownloadFailed == Has(events', "downloadNewData") /\ ~weatherData'.valid

ErrorShown == Shown("marquee", "Font_4x6", 0, DownloadErrorText)

CursorUnchanged ==
  currentMessage' = currentMessage /\ currentValue' = currentValue

\* C8: a failed download puts the program in the fault state showing the
\* error message; from then on it stays there, keeps showing that message,
\* the display state machine, the cursor and the queues never change and no
\* download is attempted.
C8_FaultTerminal ==
  [][/\ DownloadFailed => (pc' = "fault" /\ display' = ErrorShown)
     /\ pc = "fault" =>
          /\ pc' = "fault"
          /\ display' = display
          /\ state' = state
          /\ CursorUnchanged /\ QueuesUnchanged
          /\ weatherData' = weatherData
          /\ \A i \in 1 .. Len(events') : events'[i].e = "displayMarquee"]_vars

\* the error loop has run again after a download that failed in loop(), with
\* the last good queues still in memory
C8_Witness ==
  /\ pc = "fault" /\ display = ErrorShown
  /\ events = <<Event("displayMarquee", 0)>>
  /\ Len(MessageQueue) >= 3
  /\ now > DownloadTicks

\* C9 as stated: after a failed download in loop() the rebuild does not
\* happen, the previous queues remain and the program carries on (the refresh is skipped
\* for this cycle, to be retried at the next pass start).
C9_SkippedAndRetried ==
  [][(DownloadFailed /\ pc = "loop") =>
       /\ QueuesUnchanged /\ ~Has(events', "rebuilt")
       /\ pc' = "loop"]_vars

\* C9 amended: after a failed download the rebuild does not happen and the
\* previous queues and cursor remain in place, nothing released; the refresh
\* is not retried: the program halts in the fault state without scrolling
\* and never calls downloadData again.
C9_FailedDownloadHalts ==
  [][/\ DownloadFailed =>
          /\ QueuesUnchanged /\ CursorUnchanged
          /\ ~Has(events', "rebuilt")
          /\ ~Has(events', "deleteValue") /\ ~Has(events', "deleteMessage")
          /\ ~Has(events', "showMessage")
          /\ pc' = "fault"
     /\ (pc # "setup" /\ ~weatherData.valid) => ~Has(events', "downloadData")]_vars

\* a download has just failed at a pass start of loop(): the queues built
\* before are still allocated
C9_Witness ==
  /\ pc = "fault"
  /\ Has(events, "downloadNewData") /\ ~weatherData.valid
  /\ Has(events, "refreshCheck")
  /\ Len(MessageQueue) >= 3 /\ Cardinality(messageAlloc) = Len(MessageQueue)

\* no callback is registered while a direct draw is on the matrix
C10_NoCallback ==
  /\ display.mode \in {"value", "marquee"} =>
       callback = NO_CALLBACK /\ scrollLeft = 0
  /\ (pc = "loop" /\ state = "WAIT_VALUE") =>
       callback = NO_CALLBACK /\ display.mode = "value"
  /\ pc = "fault" => callback = NO_CALLBACK /\ display.mode = "marquee"
\* C10: displayValue and displayMarquee clear the registered callback, so
\* whenever a value or a marquee is what the matrix shows (in WAIT_VALUE, in
\* the fault state) no callback is registered and no scroll is running;
\* WAIT_VALUE is left only by the dwell test of loop(), never by
\* matrixCallback.
C10_DirectDrawClearsCallback ==
  [][/\ C10_NoCallback'
     /\ (pc = "loop" /\ state = "WAIT_VALUE") =>
          ~Has(events', "matrixCallback")
     /\ (pc = "loop" /\ state = "WAIT_VALUE" /\ state' # "WAIT_VALUE") =>
          /\ state' = "START_SCROLL"
          /\ Has(events', "advance")
          /\ Millis(now) > endValueDisplay]_vars

\* a value was drawn right after a scroll that had the callback registered
C10_Witness ==
  /\ pc = "loop" /\ state = "WAIT_VALUE"
  /\ Has(events, "displayValue")
  /\ display.mode = "value" /\ callback = NO_CALLBACK

\* the variables of the program (the observers events and hist apart)
ProgramVars ==
  <<pc, now, state, firstValue, lastValue, currentValue, endValueDisplay,
    valueNodes, valueAlloc, addThermoMessage, firstMessage, lastMessage,
    currentMessage, messages, messageAlloc, weatherData, callback, scrollLeft,
    display>>

\* C11: while the program runs, the state changes only along these edges:
\* START_SCROLL -> WAIT_SCROLL by a loop() run that starts a scroll;
\* WAIT_SCROLL -> START_VALUE by the completion signal only (a signal that
\* arrives before the loop() run returns takes both edges in that run);
\* START_VALUE -> WAIT_VALUE when the value is present, and -> START_SCROLL
\* when it is absent; WAIT_VALUE -> START_SCROLL when the dwell expired.
\* A loop() run in WAIT_SCROLL changes no variable, and a loop() run in
\* START_SCROLL that returns leaves START_SCROLL unless the queue is empty.
C11_Transitions ==
  [][/\ state' # state =>
          \/ /\ state = "START_SCROLL" /\ state' = "WAIT_SCROLL"
             /\ StartScrollRan /\ Has(events', "showMessage")
          \/ /\ state = "START_SCROLL" /\ state' = "START_VALUE"
             /\ StartScrollRan /\ Has(events', "showMessage")
             /\ events'[Len(events')].e = "matrixCallback"
          \/ /\ state = "WAIT_SCROLL" /\ state' = "START_VALUE"
             /\ scrollLeft = 1 /\ callback = MATRIX_CALLBACK
             /\ events' = <<Event("matrixCallback", 0)>>
          \/ /\ state = "START_VALUE" /\ state' = "WAIT_VALUE"
             /\ valueNodes[currentValue].hasValue
          \/ /\ state = "START_VALUE" /\ state' = "START_SCROLL"
             /\ ~valueNodes[currentValue].hasValue
          \/ /\ state = "WAIT_VALUE" /\ state' = "START_SCROLL"
             /\ Millis(now) > endValueDisplay
     /\ (pc = "loop" /\ state = "WAIT_SCROLL" /\ ~Has(events', "matrixCallback")
           /\ now' = now /\ scrollLeft' = scrollLeft) =>
          UNCHANGED ProgramVars
     /\ (StartScrollRan /\ pc' = "loop" /\ state' = "START_SCROLL") =>
          (firstMessage = NULL /\ firstMessage' = NULL)]_vars

\* the completion signal, delivered after the loop() run had returned, moved
\* the machine from WAIT_SCROLL to START_VALUE
C11_Witness ==
  /\ pc = "loop" /\ state = "START_VALUE"
  /\ events = <<Event("matrixCallback", 0)>>
  /\ currentMessage # firstMessage

\* the step sampled the indoor sensor, which answered (a = 1) or not (a = 0)
Sampled(a) == \E i \in 1 .. Len(events') : events'[i] = Event("checkIndoorTemp", a)

\* C12: a step that does not rebuild leaves the entries of both queues, their
\* order and every node but the indoor node's value as they are; a sample
\* the sensor answers only overwrites the value of the indoor node and sets
\* the availability flag, a sample it does not answer only clears the flag,
\* and a step that does not sample changes neither: the indoor entry is
\* added or dropped only at a rebuild.
C12_SampleFrame ==
  [][~Has(events', "rebuilt") =>
       /\ MessageQueue' = MessageQueue /\ ValueQueue' = ValueQueue
       /\ messages' = messages /\ messageAlloc' = messageAlloc
       /\ valueAlloc' = valueAlloc
       /\ \A a \in VAddr \ {INDOOR} : valueNodes'[a] = valueNodes[a]
       /\ valueNodes'[INDOOR].next = valueNodes[INDOOR].next
       /\ valueNodes'[INDOOR].hasValue = valueNodes[INDOOR].hasValue
       /\ Sampled(1) =>
            /\ addThermoMessage'
            /\ valueNodes'[INDOOR].value \in {ConvertToOut(r) : r \in SensorTenthsC}
       /\ Sampled(0) => (~addThermoMessage' /\ valueNodes' = valueNodes)
       /\ ~Has(events', "checkIndoorTemp") =>
            (valueNodes' = valueNodes /\ addThermoMessage' = addThermoMessage)]_vars

\* the queues hold an indoor entry, and a pass start that reused them has
\* just found the sensor absent
C12_Witness ==
  /\ pc = "loop"
  /\ Has(events, "usingCachedData")
  /\ \E i \in 1 .. Len(events) : events[i] = Event("checkIndoorTemp", 0)
  /\ ~addThermoMessage
  /\ Position(ValueQueue, INDOOR) # 0
  /\ Entries[Position(ValueQueue, INDOOR)] =
       [text |-> INDOOR_MESSAGE, hasValue |-> TRUE,
        value |-> ConvertToOut(Min(SensorTenthsC))]

\* the nodes of a queue, and the addresses a step passed to delete
Range(q) == {q[i] : i \in 1 .. Len(q)}
Deleted(log, e) == {log[i].a : i \in {j \in 1 .. Len(log) : log[j].e = e}}

\* no node is leaked and no pointer dangles: the allocated value nodes va
\* are exactly the nodes vs of the value list (the indoor node is static),
\* the allocated messages ma exactly the messages ms of the message list,
\* and the pointers vp and mp are null or point into the lists
NoLeak(vs, ms, va, ma, vp, mp) ==
  /\ INDOOR \notin va
  /\ va = vs \ {INDOOR}
  /\ ma = ms
  /\ vp \subseteq vs \cup {NULL}
  /\ mp \subseteq ms \cup {NULL}

\* before the step (the state setup() starts from) and after it
C13_NoLeak ==
  NoLeak(Range(ValueQueue), Range(MessageQueue), valueAlloc, messageAlloc,
         {firstValue, lastValue, currentValue},
         {firstMessage, lastMessage, currentMessage})
C13_NoLeakAfter ==
  \E vq \in {ValueQueue'}, mq \in {MessageQueue'} :
    NoLeak(Range(vq), Range(mq), valueAlloc', messageAlloc',
           {firstValue', lastValue', currentValue'},
           {firstMessage', lastMessage', currentMessage'})

\* C13: nodes are released only by a rebuild, after the download it made was
\* found valid; the rebuild deletes every message and every value node of
\* the old queues exactly once, the indoor node excepted, which is never
\* deleted; and in the initial state and after every step no node is leaked
\* and no pointer (firstValue, lastValue, currentValue, firstMessage,
\* lastMessage, currentMessage) refers to a released node.
C13_ReleaseOnce ==
  [][/\ pc = "setup" => C13_NoLeak
     /\ C13_NoLeakAfter
     /\ ~Has(events', "badDeleteValue") /\ ~Has(events', "badDeleteMessage")
     /\ ~Has(events', "freeValuesNoEnd")
     /\ INDOOR \notin Deleted(events', "deleteValue")
     /\ ~Has(events', "rebuilt") =>
          (~Has(events', "deleteValue") /\ ~Has(events', "deleteMessage"))
     /\ Has(events', "rebuilt") =>
          /\ weatherData'.valid
          /\ \A i \in 1 .. Len(events') :
               events'[i].e \in {"deleteValue", "deleteMessage"} =>
                 FirstIndex(events', "downloadNewData") < i
          /\ Deleted(events', "deleteValue") = Range(ValueQueue) \ {INDOOR}
          /\ Count(events', "deleteValue") = Cardinality(Range(ValueQueue) \ {INDOOR})
          /\ Deleted(events', "deleteMessage") = Range(MessageQueue)
          /\ Count(events', "deleteMessage") = Cardinality(Range(MessageQueue))]_vars

\* a rebuild made by loop() has just released queues that held the indoor
\* entry (one message more than heap value nodes) and built queues without it
C13_Witness ==
  /\ pc = "loop" /\ Has(events, "rebuilt")
  /\ Count(events, "deleteValue") >= 3
  /\ Count(events, "deleteMessage") = Count(events, "deleteValue") + 1
  /\ Position(ValueQueue, INDOOR) = 0
  /\ valueNodes[INDOOR].next # NULL

\* the step started the scroll of the entry at the head (the tail) of the queue
ScrolledHead ==
  pc = "loop" /\ Has(events, "showMessage") /\ currentMessage = firstMessage
ScrolledTail ==
  pc = "loop" /\ Has(events, "showMessage") /\ currentMessage = lastMessage

\* C15: while loop() keeps being called, scrolls complete, the clock runs
\* and downloads succeed, the controller walks the queue forever: the first
\* and the last entry of the queue are scrolled again and again, and the
\* scroll of an entry that has a value is followed by the display of its
\* value.
C15_WalksForever ==
  /\ []<>ScrolledHead
  /\ []<>ScrolledTail
  /\ (pc = "loop" /\ Has(events, "showMessage") /\ valueNodes[currentValue].hasValue)
       ~> Has(events, "displayValue")

\* C16: for every value v, displayValue draws v with the larger font
\* (Font_5x7) if and only if -10 < v < 100, and with the compact font
\* (Font_4x6) otherwise.
C16_GlyphSize ==
  display.mode = "value" =>
    /\ display.font \in {"Font_5x7", "Font_4x6"}
    /\ (display.font = "Font_5x7") <=> (-10 < display.value /\ display.value < 100)
    /\ display.value = 7 => display.font = "Font_5x7"
    /\ display.value \in {123, -15, -10, 100} => display.font = "Font_4x6"

\* displayValue has drawn the bound -10 itself, with the compact font
C16_Witness ==
  /\ events = <<Event("displayValue", -10)>>
  /\ display = Shown("value", "Font_4x6", -10, NoText)

\* C17: whenever the machine is in WAIT_SCROLL, START_VALUE or WAIT_VALUE,
\* currentMessage and currentValue are not null and are nodes of the current
\* queues, not released: a message that is allocated, and a value node that
\* is allocated or is the indoor node.
C17_CursorValid ==
  state \in {"WAIT_SCROLL", "START_VALUE", "WAIT_VALUE"} =>
    /\ pc = "loop"
    /\ currentMessage # NULL /\ currentValue # NULL
    /\ currentMessage \in messageAlloc
    /\ currentValue \in valueAlloc \cup {INDOOR}
    /\ Position(MessageQueue, currentMessage) # 0
    /\ Position(ValueQueue, currentValue) # 0

\* after a rebuild made by loop(), the value of the indoor node is on
\* display and the cursor is at the indoor entry
C17_Witness ==
  /\ pc = "loop" /\ state = "WAIT_VALUE"
  /\ weatherData.lastDownloadTime > DownloadTicks
  /\ currentValue = INDOOR
  /\ messages[currentMessage].text = INDOOR_MESSAGE

\* C18: the value list that starts at firstValue ends at a null next pointer
\* within MaxEntries nodes, visits no node twice (so it holds the indoor
\* node at most once), holds only nodes that are allocated or the indoor
\* node, and ends at lastValue, whose next pointer is null; an empty list
\* has lastValue null.
C18_ValueListWellFormed ==
  /\ Len(ValueQueue) <= MaxEntries
  /\ \A i, j \in 1 .. Len(ValueQueue) : ValueQueue[i] = ValueQueue[j] => i = j
  /\ Range(ValueQueue) \subseteq valueAlloc \cup {INDOOR}
  /\ (firstValue = NULL) <=> (lastValue = NULL)
  /\ firstValue # NULL =>
       /\ ValueQueue[Len(ValueQueue)] = lastValue
       /\ valueNodes[lastValue].next = NULL

\* a rebuild has just released a list that went through the indoor node and
\* linked the indoor node, its next pointer left over, into the new list
C18_Witness ==
  /\ pc = "loop" /\ Has(events, "rebuilt")
  /\ Count(events, "deleteMessage") = Count(events, "deleteValue") + 1
  /\ Position(ValueQueue, INDOOR) # 0
  /\ valueNodes[INDOOR].next \in valueAlloc

\* the texts of the messages of the queue, in order
QueueTexts == [i \in 1 .. Len(MessageQueue) |-> messages[MessageQueue[i]].text]

\* C19: a rebuild leaves at least three entries, among them the period
\* summary, the outdoor temperature and, last, tonight's low, and the last
\* entry has a value; while loop() runs the message queue is never empty;
\* and the "No data to display" text is never drawn.
C19_NeverEmpty ==
  /\ (Has(events, "rebuilt") \/ pc = "loop") =>
       /\ firstMessage # NULL /\ firstValue # NULL
       /\ Len(MessageQueue) >= 3 /\ Len(ValueQueue) >= 3
       /\ {PeriodText, NOW_MESSAGE, LOW_MESSAGE} \subseteq Range(QueueTexts)
       /\ messages[lastMessage].text = LOW_MESSAGE
       /\ valueNodes[lastValue].hasValue
  /\ pc \in {"loop", "fault"} \/ firstMessage = NULL
  /\ display.text # NoDataText

\* a rebuild made by loop() from a forecast with no hazards and no high,
\* the sensor absent: the three entries that are always there
C19_Witness ==
  /\ pc = "loop" /\ Has(events, "rebuilt") /\ Has(events, "refreshCheck")
  /\ QueueTexts = <<PeriodText, NOW_MESSAGE, LOW_MESSAGE>>

\* a scroll is in flight exactly while the machine waits for it, with the
\* callback registered and the message under the cursor on the matrix
ScrollInFlight ==
  /\ (state = "WAIT_SCROLL") <=> (scrollLeft >= 1)
  /\ state = "WAIT_SCROLL" =>
       /\ callback = MATRIX_CALLBACK
       /\ display = Shown("scroll", "Font_4x6", 0, messages[currentMessage].text)

\* C20: a completion signal is delivered only for the scroll the machine
\* waits for, whether the loop() run that started it has returned or not;
\* it leaves the machine in START_VALUE with the cursor on the message that
\* was scrolled and no scroll in flight, so that no second signal follows;
\* and the one START_VALUE run that follows leaves START_VALUE with the
\* cursor on that entry or, the value absent, on the next one.
C20_SignalNotLost ==
  [][/\ ScrollInFlight /\ ScrollInFlight'
     /\ Has(events', "matrixCallback") =>
          /\ Count(events', "matrixCallback") = 1
          /\ state' = "START_VALUE" /\ scrollLeft' = 0
          /\ IF Has(events', "showMessage")
             THEN /\ state = "START_SCROLL"
                  /\ Count(events', "showMessage") = 1
                  /\ events'[FirstIndex(events', "showMessage")].a = currentMessage'
                  /\ FirstIndex(events', "showMessage")
                       < FirstIndex(events', "matrixCallback")
             ELSE /\ state = "WAIT_SCROLL"
                  /\ currentMessage' = currentMessage
                  /\ currentValue' = currentValue
     /\ (state = "START_VALUE" /\ events' # <<>>) =>
          /\ ~Has(events', "matrixCallback")
          /\ \/ /\ state' = "WAIT_VALUE"
                /\ currentMessage' = currentMessage /\ currentValue' = currentValue
             \/ /\ state' = "START_SCROLL"
                /\ currentMessage' = messages[currentMessage].next]_vars

\* the completion signal arrived before the loop() run that started the
\* scroll returned: the machine is in START_VALUE for the message scrolled
C20_Witness ==
  /\ pc = "loop" /\ state = "START_VALUE" /\ scrollLeft = 0
  /\ Has(events, "showMessage")
  /\ events[FirstIndex(events, "showMessage")].a = currentMessage
  /\ events[Len(events)] = Event("matrixCallback", 0)
  /\ currentMessage # firstMessage
====
